---------------------------- MODULE Spec2Model ----------------------------
(***************************************************************************)
(* A model of the Datadog MCP server's span tools and of its start-up.     *)
(*                                                                         *)
(*   src/src/index.ts            start-up: credential and site resolution, *)
(*                               validation, initialize calls, connect,    *)
(*                               and the registered tool handlers          *)
(*   src/src/tools/getTrace.ts   getTrace.initialize / getTrace.execute    *)
(*   src/src/tools/searchSpans.ts searchSpans.initialize / .execute        *)
(*   src/unnamed/part_000        aggregateSpans.initialize / .execute      *)
(*                                                                         *)
(* JavaScript values are modelled as follows.  A string is a sequence of   *)
(* one-character strings, so that startsWith and substring are computed.   *)
(* The value undefined, where a string is expected, is the one-element     *)
(* sequence Undefined (no character is the nine-letter token it holds).    *)
(* An optional number is a record [present, value].  Error messages are    *)
(* sequences of parts: the literal text of the source and, for a template  *)
(* literal, the interpolated values in between.                            *)
(*                                                                         *)
(* The backend client library (@datadog/datadog-api-client) is outside the *)
(* repository.  Its answer to a request is an input of the model: any      *)
(* successful response or any thrown error.  The code of the tools never   *)
(* reads the configuration handle it passes to the library, so the answer  *)
(* is drawn independently of the handle.                                   *)
(***************************************************************************)
EXTENDS Integers, Sequences, FiniteSets, TLC

VARIABLES
    argv,           \* minimist(process.argv.slice(2)): the command-line values
    env,            \* process.env
    DD,             \* the module constants DD_API_KEY .. DD_METRICS_SITE of index.ts
    pc,             \* position of index.ts's top-level code; "test" when the
                    \* tool modules are used directly, without index.ts
    exitCode,       \* status given to process.exit, NoExit while running
    connected,      \* server.connect(transport) has been called
    configuration,  \* the module-level `let configuration` of each tool
    initCount,      \* how often each tool's initialize has run (capped)
    calls           \* per caller: the execute invocation it is in or has finished

vars == <<argv, env, DD, pc, exitCode, connected, configuration, initCount, calls>>

----------------------------------------------------------------------------
(* Bounds of the model *)

\* site inputs carry 0..MaxPrefix leading "https://" prefixes
MaxPrefix == 2
\* a backend response lists 0..MaxSpans spans
MaxSpans == 2
\* initialize runs are counted up to MaxInit per tool
MaxInit == 2

----------------------------------------------------------------------------
(* JavaScript values *)

Undefined == <<"undefined">>

\* String(undefined), what process.env stores when undefined is assigned
UndefinedString == <<"u", "n", "d", "e", "f", "i", "n", "e", "d">>

\* truthiness of a string-or-undefined value: undefined and "" are falsy
Truthy(v) == v # Undefined /\ v # <<>>

\* a || b
Or(a, b) == IF Truthy(a) THEN a ELSE b

\* optional numbers
NoNumber == [present |-> FALSE, value |-> 0]
Num(n) == [present |-> TRUE, value |-> n]
\* truthiness of an optional number: undefined and 0 are falsy
TruthyNum(n) == n.present /\ n.value # 0

\* String.prototype.startsWith
StartsWith(s, p) == Len(s) >= Len(p) /\ SubSeq(s, 1, Len(p)) = p

\* String.prototype.substring(k)
Substring(s, k) == SubSeq(s, k + 1, Len(s))

\* Array.prototype.slice(0, end): a negative end counts from the end of the array
Slice0(arr, end) ==
    LET e == IF end < 0 THEN (IF Len(arr) + end < 0 THEN 0 ELSE Len(arr) + end)
             ELSE (IF end > Len(arr) THEN Len(arr) ELSE end)
    IN  SubSeq(arr, 1, e)

\* assignment to a property of process.env converts the value to a string
ToEnvString(v) == IF v = Undefined THEN UndefinedString ELSE v

----------------------------------------------------------------------------
(* index.ts: credential and site resolution *)

HttpsPrefix == <<"h", "t", "t", "p", "s", ":", "/", "/">>

DefaultSite == <<"d", "a", "t", "a", "d", "o", "g", "h", "q", ".", "c", "o", "m">>

\* a mutant of cleanupUrl: the prefix is never removed
cleanupUrlNoStrip(url) == url

\* const cleanupUrl = (url) => url.startsWith("https://") ? url.substring(8) : url
cleanupUrl(url) == IF StartsWith(url, HttpsPrefix) THEN Substring(url, 8) ELSE url

RECURSIVE WithPrefixes(_, _)
WithPrefixes(n, s) == IF n = 0 THEN s ELSE HttpsPrefix \o WithPrefixes(n - 1, s)

SiteBases == {<<>>, <<"e", "u">>}
SiteStrings == {WithPrefixes(n, b) : n \in 0..MaxPrefix, b \in SiteBases}

ApiKeyArg == <<"a", "1">>
ApiKeyEnv == <<"a", "2">>
AppKeyArg == <<"p", "1">>
AppKeyEnv == <<"p", "2">>
LogsSiteEnv == HttpsPrefix \o <<"l", "g">>

\* exitCode: <<>> while the process runs, <<n>> after process.exit(n)
NoExit == <<>>

\* what minimist and process.env can hold before index.ts runs (dotenv.config()
\* only adds to process.env, so its effect is part of the initial process.env)
ArgvInputs ==
    [apiKey : {Undefined, ApiKeyArg},
     appKey : {Undefined, AppKeyArg},
     site : {Undefined} \cup SiteStrings,
     logsSite : {Undefined},
     metricsSite : {Undefined}]

EnvInputs ==
    [DD_API_KEY : {Undefined, <<>>, ApiKeyEnv},
     DD_APP_KEY : {Undefined, AppKeyEnv},
     DD_SITE : {Undefined, <<"e", "u">>},
     DD_LOGS_SITE : {Undefined, LogsSiteEnv},
     DD_METRICS_SITE : {Undefined}]

NoArgv ==
    [apiKey |-> Undefined, appKey |-> Undefined, site |-> Undefined,
     logsSite |-> Undefined, metricsSite |-> Undefined]

\* the constants of index.ts before lines 31-41 have run
NoDD ==
    [DD_API_KEY |-> Undefined, DD_APP_KEY |-> Undefined, DD_SITE |-> Undefined,
     DD_LOGS_SITE |-> Undefined, DD_METRICS_SITE |-> Undefined]

\* index.ts lines 31-41
ResolveConfig(a, e) ==
    LET site == Or(a.site, Or(e.DD_SITE, DefaultSite))
    IN  [DD_API_KEY |-> Or(a.apiKey, e.DD_API_KEY),
         DD_APP_KEY |-> Or(a.appKey, e.DD_APP_KEY),
         DD_SITE |-> site,
         DD_LOGS_SITE |-> Or(a.logsSite, Or(e.DD_LOGS_SITE, site)),
         DD_METRICS_SITE |-> Or(a.metricsSite, Or(e.DD_METRICS_SITE, site))]

\* index.ts lines 48-52
StoreConfig(d) ==
    [DD_API_KEY |-> ToEnvString(d.DD_API_KEY),
     DD_APP_KEY |-> ToEnvString(d.DD_APP_KEY),
     DD_SITE |-> cleanupUrl(d.DD_SITE),
     DD_LOGS_SITE |-> cleanupUrl(d.DD_LOGS_SITE),
     DD_METRICS_SITE |-> cleanupUrl(d.DD_METRICS_SITE)]

----------------------------------------------------------------------------
(* The tools: configuration handles *)

Tools == {"getTrace", "searchSpans", "aggregateSpans"}

\* `let configuration` before any assignment
Unbound == [bound |-> FALSE]

\* const configOpts = {authMethods: {...}}; client.createConfiguration(configOpts);
\* if (process.env.DD_SITE) configuration.setServerVariables({site: ...})
CreateConfiguration(e) ==
    [bound |-> TRUE,
     authMethods |-> [apiKeyAuth |-> e.DD_API_KEY, appKeyAuth |-> e.DD_APP_KEY],
     site |-> IF Truthy(e.DD_SITE) THEN e.DD_SITE ELSE Undefined]

\* a mutant of initialize: a handle that is already bound is rebuilt without
\* the site step
InitializeSiteOnce(cur, e) ==
    IF cur.bound THEN [CreateConfiguration(e) EXCEPT !.site = Undefined]
    ELSE CreateConfiguration(e)

\* initialize: the value assigned to `configuration`; cur, the value it held,
\* is overwritten without being read
InitializeHandle(cur, e) == CreateConfiguration(e)

----------------------------------------------------------------------------
(* The tools: errors *)

\* new Error(message): no status property
NewError(message) ==
    [name |-> "Error", hasStatus |-> FALSE, status |-> 0, message |-> message]

CredentialError == NewError(<<"API Key and App Key are required">>)
TraceIdError == NewError(<<"traceId is required">>)

AuthMessage ==
    <<"Datadog API authorization failed. Please verify your API and Application keys have the 'apm_read' scope.">>
RateLimitMessage ==
    <<"Rate limit exceeded. Spans API allows 300 requests per hour.">>
\* `Trace with ID ${params.traceId} not found. Make sure ...`
NotFoundMessage(traceId) ==
    <<"Trace with ID ", traceId,
      " not found. Make sure the trace exists and is within the time window (last 15 minutes by default).">>

AuthLog ==
    <<"Authorization failed (403 Forbidden): Check that your API key and Application key are valid and have sufficient permissions to access APM data. Required scope: apm_read">>
RateLimitLog ==
    <<"Rate limit exceeded (429): Spans API is limited to 300 requests per hour.">>

\* the errors the backend call can throw: an HTTP failure carrying a status,
\* or a failure without one (a transport error, a TypeError)
BackendStatuses == {403, 429, 404, 500}
BackendErrors ==
    {[name |-> "ApiException", hasStatus |-> TRUE, status |-> s,
      message |-> <<"backend failure">>] : s \in BackendStatuses}
    \cup {[name |-> "FetchError", hasStatus |-> FALSE, status |-> 0,
           message |-> <<"request failed">>]}

\* error.status === n
StatusIs(error, n) == error.hasStatus /\ error.status = n

\* a mutant of GetTraceCatch: the 403 branch is missing
GetTraceCatchNo403(error, params) ==
    IF StatusIs(error, 429)
    THEN [error |-> NewError(RateLimitMessage), logged |-> <<RateLimitLog>>]
    ELSE IF StatusIs(error, 404)
    THEN [error |-> NewError(NotFoundMessage(params.traceId)), logged |-> <<>>]
    ELSE [error |-> error, logged |-> <<<<"Error fetching trace:", error>>>>]

\* getTrace.execute, the catch block: what is thrown and what console.error gets
GetTraceCatch(error, params) ==
    IF StatusIs(error, 403)
    THEN [error |-> NewError(AuthMessage), logged |-> <<AuthLog>>]
    ELSE IF StatusIs(error, 429)
    THEN [error |-> NewError(RateLimitMessage), logged |-> <<RateLimitLog>>]
    ELSE IF StatusIs(error, 404)
    THEN [error |-> NewError(NotFoundMessage(params.traceId)), logged |-> <<>>]
    ELSE [error |-> error, logged |-> <<<<"Error fetching trace:", error>>>>]

\* a mutant of SearchSpansCatch: the 404 branch of getTrace's catch block is
\* copied along, so a 404 is answered by a new error
SearchSpansCatchTranslates404(error) ==
    IF StatusIs(error, 403)
    THEN [error |-> NewError(AuthMessage), logged |-> <<AuthLog>>]
    ELSE IF StatusIs(error, 429)
    THEN [error |-> NewError(RateLimitMessage), logged |-> <<RateLimitLog>>]
    ELSE IF StatusIs(error, 404)
    THEN [error |-> NewError(<<"Spans not found.">>), logged |-> <<>>]
    ELSE [error |-> error, logged |-> <<<<"Error searching spans:", error>>>>]

\* searchSpans.execute, the catch block
SearchSpansCatch(error) ==
    IF StatusIs(error, 403)
    THEN [error |-> NewError(AuthMessage), logged |-> <<AuthLog>>]
    ELSE IF StatusIs(error, 429)
    THEN [error |-> NewError(RateLimitMessage), logged |-> <<RateLimitLog>>]
    ELSE [error |-> error, logged |-> <<<<"Error searching spans:", error>>>>]

\* aggregateSpans.execute, the catch block
AggregateSpansCatch(error) ==
    IF StatusIs(error, 403)
    THEN [error |-> NewError(AuthMessage), logged |-> <<AuthLog>>]
    ELSE IF StatusIs(error, 429)
    THEN [error |-> NewError(RateLimitMessage), logged |-> <<RateLimitLog>>]
    ELSE [error |-> error, logged |-> <<<<"Error aggregating spans:", error>>>>]

----------------------------------------------------------------------------
(* The tools: parameters, requests, responses and results *)

\* an optional object that is absent
Absent == [present |-> FALSE]

TraceIds == {<<>>, <<"a", "b", "c">>, <<"7">>}

\* GetTraceParams: traceId, limit?
GetTraceParamSet ==
    [traceId : TraceIds, limit : {NoNumber, Num(0), Num(2)}]

FilterValues ==
    {Absent,
     [present |-> TRUE, query |-> <<"s", ":", "w">>, from |-> Undefined,
      to |-> <<"n", "o", "w">>]}

PageValues ==
    {Absent, [present |-> TRUE, limit |-> Num(5), cursor |-> Undefined]}

\* SearchSpansParams: filter?, sort?, page?, limit?
SearchSpansParamSet ==
    [filter : {Absent}, sort : {Undefined}, page : {Absent},
     limit : {NoNumber} \cup {Num(n) : n \in 0..MaxSpans}]
    \cup [filter : FilterValues \ {Absent}, sort : {<<"-", "t">>},
          page : PageValues \ {Absent}, limit : {NoNumber, Num(1)}]

ComputeValues ==
    {Absent,
     [present |-> TRUE,
      items |-> <<[aggregation |-> <<"c", "n", "t">>, metric |-> Undefined,
                   type |-> <<"t", "o", "t">>]>>]}

GroupByValues ==
    {Absent,
     [present |-> TRUE,
      items |-> <<[facet |-> <<"s", "v", "c">>, limit |-> Num(3), sort |-> Absent],
                  [facet |-> <<"r", "e", "s">>, limit |-> NoNumber,
                   sort |-> [present |-> TRUE, aggregation |-> <<"c", "n", "t">>,
                             order |-> <<>>, metric |-> Undefined,
                             type |-> Undefined]]>>]}

\* AggregateSpansParams: filter?, compute?, groupBy?, options?
AggregateSpansParamSet ==
    {[filter |-> Absent, compute |-> Absent, groupBy |-> Absent, options |-> Absent]}
    \cup [filter : FilterValues \ {Absent}, compute : ComputeValues \ {Absent},
          groupBy : GroupByValues \ {Absent},
          options : {[present |-> TRUE, timezone |-> <<"U", "T", "C">>]}]

\* a span list of n items, not in ascending order
RECURSIVE SpanList(_)
SpanList(n) == IF n = 0 THEN <<>> ELSE <<n>> \o SpanList(n - 1)

MetaValues == {Absent, [present |-> TRUE, page |-> <<"n", "x", "t">>]}

\* what listSpans / aggregateSpans resolve to: data may be missing
BackendResponses ==
    [hasData : {FALSE}, data : {<<>>}, meta : MetaValues]
    \cup [hasData : {TRUE}, data : {SpanList(n) : n \in 0..MaxSpans}, meta : MetaValues]

\* the outcome of the awaited backend call
BackendOutcomes ==
    [ok : {TRUE}, response : BackendResponses]
    \cup [ok : {FALSE}, error : BackendErrors]

DefaultTraceLimit == 1000

\* getTrace.execute: the body of the request
GetTraceBody(params) ==
    [data |->
        [attributes |->
            [filter |-> [query |-> <<"trace_id:", params.traceId>>,
                         from |-> "now-15m", to |-> "now"],
             sort |-> "timestamp",
             page |-> [limit |-> IF TruthyNum(params.limit) THEN params.limit.value
                                 ELSE DefaultTraceLimit]],
         type |-> "search_request"]]

\* filter ? {query: filter.query, from: filter.from, to: filter.to} : undefined
FilterOf(filter) ==
    IF filter.present
    THEN [present |-> TRUE, query |-> filter.query, from |-> filter.from,
          to |-> filter.to]
    ELSE Absent

\* searchSpans.execute: the body of the request
SearchSpansBody(params) ==
    [data |->
        [attributes |->
            [filter |-> FilterOf(params.filter), sort |-> params.sort,
             page |-> params.page],
         type |-> "search_request"]]

\* compute?.map(c => ({aggregation, metric, type}))
ComputeSpec(c) == [aggregation |-> c.aggregation, metric |-> c.metric, type |-> c.type]

\* groupBy?.map(g => ...): a sort object gets only the truthy fields of g.sort
GroupBySpec(g) ==
    [facet |-> g.facet, limit |-> g.limit,
     sort |-> IF g.sort.present
              THEN [present |-> TRUE,
                    aggregation |-> IF Truthy(g.sort.aggregation)
                                    THEN g.sort.aggregation ELSE Undefined,
                    order |-> IF Truthy(g.sort.order) THEN g.sort.order ELSE Undefined,
                    metric |-> IF Truthy(g.sort.metric) THEN g.sort.metric ELSE Undefined,
                    type |-> IF Truthy(g.sort.type) THEN g.sort.type ELSE Undefined]
              ELSE Absent]

\* aggregateSpans.execute: the body of the request
AggregateSpansBody(params) ==
    [data |->
        [attributes |->
            [filter |-> FilterOf(params.filter),
             compute |-> IF params.compute.present
                         THEN [present |-> TRUE,
                               items |-> [i \in 1..Len(params.compute.items) |->
                                            ComputeSpec(params.compute.items[i])]]
                         ELSE Absent,
             groupBy |-> IF params.groupBy.present
                         THEN [present |-> TRUE,
                               items |-> [i \in 1..Len(params.groupBy.items) |->
                                            GroupBySpec(params.groupBy.items[i])]]
                         ELSE Absent,
             options |-> params.options],
         type |-> "aggregate_request"]]

\* a mutant of GetTraceResult: spanCount is the page limit that was asked for
GetTraceResultCountsLimit(params, response) ==
    [traceId |-> params.traceId,
     spans |-> IF response.hasData THEN response.data ELSE <<>>,
     meta |-> response.meta,
     spanCount |-> IF TruthyNum(params.limit) THEN params.limit.value
                   ELSE DefaultTraceLimit]

\* getTrace.execute: the value returned
\* {traceId, spans: response.data || [], meta, spanCount: response.data?.length || 0}
GetTraceResult(params, response) ==
    [traceId |-> params.traceId,
     spans |-> IF response.hasData THEN response.data ELSE <<>>,
     meta |-> response.meta,
     spanCount |-> IF response.hasData THEN Len(response.data) ELSE 0]

\* searchSpans.execute: the value returned
\* if (limit && response.data && response.data.length > limit)
\*   return {...response, data: response.data.slice(0, limit)}
SearchSpansResult(params, response) ==
    IF /\ TruthyNum(params.limit)
       /\ response.hasData
       /\ Len(response.data) > params.limit.value
    THEN [response EXCEPT !.data = Slice0(response.data, params.limit.value)]
    ELSE response

\* aggregateSpans.execute: the value returned
AggregateSpansResult(params, response) == response

----------------------------------------------------------------------------
(* The tools: one execute invocation *)

Idle == [phase |-> "idle"]

NoRequest == [sent |-> FALSE]
NoOutcome == [received |-> FALSE]
NoResult == [returned |-> FALSE]
NoError == [thrown |-> FALSE]

\* an invocation whose try block threw `error` before the backend was called
ThrewEarly(tool, params, caught) ==
    [phase |-> "threw", tool |-> tool, params |-> params, handle |-> Unbound,
     request |-> NoRequest, backendCalls |-> 0, outcome |-> NoOutcome,
     result |-> NoResult, error |-> caught.error, logged |-> caught.logged]

\* an invocation suspended at `await apiInstance.<method>(requestParams)`, with
\* apiInstance = new v2.SpansApi(handle)
Awaiting(tool, params, handle, method, body) ==
    [phase |-> "pending", tool |-> tool, params |-> params, handle |-> handle,
     request |-> [sent |-> TRUE, method |-> method, body |-> body],
     backendCalls |-> 1, outcome |-> NoOutcome, result |-> NoResult,
     error |-> NoError, logged |-> <<>>]

CredentialsPresent(e) == Truthy(e.DD_API_KEY) /\ Truthy(e.DD_APP_KEY)

\* a mutant of GetTraceBegin: the traceId check comes first
GetTraceBeginTraceIdFirst(params, handle, e) ==
    IF ~Truthy(params.traceId)
    THEN ThrewEarly("getTrace", params, GetTraceCatch(TraceIdError, params))
    ELSE IF ~CredentialsPresent(e)
    THEN ThrewEarly("getTrace", params, GetTraceCatch(CredentialError, params))
    ELSE Awaiting("getTrace", params, handle, "listSpans", GetTraceBody(params))

\* getTrace.execute up to its await (lines 29-66)
GetTraceBegin(params, handle, e) ==
    IF ~CredentialsPresent(e)
    THEN ThrewEarly("getTrace", params, GetTraceCatch(CredentialError, params))
    ELSE IF ~Truthy(params.traceId)
    THEN ThrewEarly("getTrace", params, GetTraceCatch(TraceIdError, params))
    ELSE Awaiting("getTrace", params, handle, "listSpans", GetTraceBody(params))

\* searchSpans.execute up to its await (lines 38-72)
SearchSpansBegin(params, handle, e) ==
    IF ~CredentialsPresent(e)
    THEN ThrewEarly("searchSpans", params, SearchSpansCatch(CredentialError))
    ELSE Awaiting("searchSpans", params, handle, "listSpans", SearchSpansBody(params))

\* aggregateSpans.execute up to its await (lines 50-111)
AggregateSpansBegin(params, handle, e) ==
    IF ~CredentialsPresent(e)
    THEN ThrewEarly("aggregateSpans", params, AggregateSpansCatch(CredentialError))
    ELSE Awaiting("aggregateSpans", params, handle, "aggregateSpans",
                  AggregateSpansBody(params))

Returned(call, outcome, result) ==
    [call EXCEPT !.phase = "returned", !.outcome = outcome, !.result = result]

Threw(call, outcome, caught) ==
    [call EXCEPT !.phase = "threw", !.outcome = outcome, !.error = caught.error,
                 !.logged = caught.logged]

\* a mutant of SearchSpansSettle: a 429 is answered by calling the backend again
SearchSpansSettleRetry(call, outcome) ==
    IF outcome.ok
    THEN Returned(call, outcome, SearchSpansResult(call.params, outcome.response))
    ELSE IF StatusIs(outcome.error, 429) /\ call.backendCalls < 2
    THEN [call EXCEPT !.backendCalls = call.backendCalls + 1]
    ELSE Threw(call, outcome, SearchSpansCatch(outcome.error))

\* getTrace.execute from its await on (lines 66-99)
GetTraceSettle(call, outcome) ==
    IF outcome.ok
    THEN Returned(call, outcome, GetTraceResult(call.params, outcome.response))
    ELSE Threw(call, outcome, GetTraceCatch(outcome.error, call.params))

\* searchSpans.execute from its await on (lines 72-102)
SearchSpansSettle(call, outcome) ==
    IF outcome.ok
    THEN Returned(call, outcome, SearchSpansResult(call.params, outcome.response))
    ELSE Threw(call, outcome, SearchSpansCatch(outcome.error))

\* aggregateSpans.execute from its await on (lines 111-133)
AggregateSpansSettle(call, outcome) ==
    IF outcome.ok
    THEN Returned(call, outcome, AggregateSpansResult(call.params, outcome.response))
    ELSE Threw(call, outcome, AggregateSpansCatch(outcome.error))

----------------------------------------------------------------------------
(* Actions: the tool modules *)

Callers == {"c1"}

\* <tool>.initialize()
Initialize(tool) ==
    /\ initCount[tool] < MaxInit
    /\ configuration' =
           [configuration EXCEPT ![tool] = InitializeHandle(configuration[tool], env)]
    /\ initCount' = [initCount EXCEPT ![tool] = initCount[tool] + 1]

GetTraceInitialize ==
    /\ pc = "test"
    /\ Initialize("getTrace")
    /\ UNCHANGED <<argv, env, DD, pc, exitCode, connected, calls>>

SearchSpansInitialize ==
    /\ pc = "test"
    /\ Initialize("searchSpans")
    /\ UNCHANGED <<argv, env, DD, pc, exitCode, connected, calls>>

AggregateSpansInitialize ==
    /\ pc = "test"
    /\ Initialize("aggregateSpans")
    /\ UNCHANGED <<argv, env, DD, pc, exitCode, connected, calls>>

\* a caller awaits its execute call before it makes the next one
CanCall(c) == calls[c].phase # "pending"

\* a mutant of getTrace.execute: the call keeps its trace id in the module's
\* handle, where the other calls read it
GetTraceExecuteWritesHandle(c, params) ==
    /\ CanCall(c)
    /\ calls' = [calls EXCEPT ![c] = GetTraceBegin(params, configuration["getTrace"], env)]
    /\ configuration' =
           [configuration EXCEPT !["getTrace"] =
               IF configuration["getTrace"].bound
               THEN [configuration["getTrace"] EXCEPT !.site = params.traceId]
               ELSE configuration["getTrace"]]
    /\ UNCHANGED <<argv, env, DD, pc, exitCode, connected, initCount>>

GetTraceExecute(c, params) ==
    /\ CanCall(c)
    /\ calls' = [calls EXCEPT ![c] = GetTraceBegin(params, configuration["getTrace"], env)]
    /\ UNCHANGED <<argv, env, DD, pc, exitCode, connected, configuration, initCount>>

SearchSpansExecute(c, params) ==
    /\ CanCall(c)
    /\ calls' = [calls EXCEPT ![c] =
                    SearchSpansBegin(params, configuration["searchSpans"], env)]
    /\ UNCHANGED <<argv, env, DD, pc, exitCode, connected, configuration, initCount>>

AggregateSpansExecute(c, params) ==
    /\ CanCall(c)
    /\ calls' = [calls EXCEPT ![c] =
                    AggregateSpansBegin(params, configuration["aggregateSpans"], env)]
    /\ UNCHANGED <<argv, env, DD, pc, exitCode, connected, configuration, initCount>>

\* the awaited backend call settles and execute runs to its end
Settle(c, tool, next) ==
    /\ calls[c].phase = "pending"
    /\ calls[c].tool = tool
    /\ calls' = [calls EXCEPT ![c] = next]
    /\ UNCHANGED <<argv, env, DD, pc, exitCode, connected, configuration, initCount>>

GetTraceResume ==
    \E c \in DOMAIN calls, o \in BackendOutcomes :
        Settle(c, "getTrace", GetTraceSettle(calls[c], o))

SearchSpansResume ==
    \E c \in DOMAIN calls, o \in BackendOutcomes :
        Settle(c, "searchSpans", SearchSpansSettle(calls[c], o))

AggregateSpansResume ==
    \E c \in DOMAIN calls, o \in BackendOutcomes :
        Settle(c, "aggregateSpans", AggregateSpansSettle(calls[c], o))

GetTraceCall ==
    /\ pc = "test"
    /\ \E c \in DOMAIN calls, params \in GetTraceParamSet : GetTraceExecute(c, params)

SearchSpansCall ==
    /\ pc = "test"
    /\ \E c \in DOMAIN calls, params \in SearchSpansParamSet :
           SearchSpansExecute(c, params)

AggregateSpansCall ==
    /\ pc = "test"
    /\ \E c \in DOMAIN calls, params \in AggregateSpansParamSet :
           AggregateSpansExecute(c, params)

\* the tool modules loaded on their own: process.env is whatever the caller
\* set, no handle is bound and nothing has been called
TestEnvs ==
    [DD_API_KEY : {Undefined, <<>>, ApiKeyEnv},
     DD_APP_KEY : {Undefined, <<>>, AppKeyEnv},
     DD_SITE : {Undefined, <<"e", "u">>},
     DD_LOGS_SITE : {Undefined},
     DD_METRICS_SITE : {Undefined}]

Init ==
    /\ argv = NoArgv
    /\ env \in TestEnvs
    /\ DD = NoDD
    /\ pc = "test"
    /\ exitCode = NoExit
    /\ connected = FALSE
    /\ configuration = [t \in Tools |-> Unbound]
    /\ initCount = [t \in Tools |-> 0]
    /\ calls = [c \in Callers |-> Idle]

Next ==
    \/ GetTraceInitialize
    \/ SearchSpansInitialize
    \/ AggregateSpansInitialize
    \/ GetTraceCall
    \/ SearchSpansCall
    \/ AggregateSpansCall
    \/ GetTraceResume
    \/ SearchSpansResume
    \/ AggregateSpansResume

Spec == Init /\ [][Next]_vars

----------------------------------------------------------------------------
(* Actions: index.ts *)

\* lines 25-52: read the command line and process.env, resolve the constants,
\* store the values back into process.env
Resolve ==
    /\ pc = "resolve"
    /\ DD' = ResolveConfig(argv, env)
    /\ env' = StoreConfig(DD')
    /\ pc' = "validateApiKey"
    /\ UNCHANGED <<argv, exitCode, connected, configuration, initCount, calls>>

\* a mutant of KeyMissing: the check is `=== undefined`, which lets "" through
KeyMissingUndefinedOnly(key) == key = Undefined

\* !DD_API_KEY, !DD_APP_KEY
KeyMissing(key) == ~Truthy(key)

\* process.exit(1)
Exit(code) ==
    /\ pc' = "exited"
    /\ exitCode' = <<code>>
    /\ UNCHANGED <<argv, env, DD, connected, configuration, initCount, calls>>

Proceed(to) ==
    /\ pc' = to
    /\ UNCHANGED <<argv, env, DD, exitCode, connected, configuration, initCount, calls>>

\* lines 55-60
ValidateApiKey ==
    /\ pc = "validateApiKey"
    /\ IF KeyMissing(DD.DD_API_KEY) THEN Exit(1) ELSE Proceed("validateAppKey")

\* lines 62-67
ValidateAppKey ==
    /\ pc = "validateAppKey"
    /\ IF KeyMissing(DD.DD_APP_KEY) THEN Exit(1) ELSE Proceed("initialize")

\* lines 81-83: searchSpans.initialize(); aggregateSpans.initialize();
\* getTrace.initialize().  Each assigns its own module's handle from the same
\* process.env.  (Lines 71-80 initialize the tools that are not modelled.)
InitializeTools ==
    /\ pc = "initialize"
    /\ configuration' =
           [t \in Tools |-> InitializeHandle(configuration[t], env)]
    /\ initCount' = [t \in Tools |-> initCount[t] + 1]
    /\ pc' = "connect"
    /\ UNCHANGED <<argv, env, DD, exitCode, connected, calls>>

\* lines 393-399: server.connect(transport); from here on tool calls arrive
Connect ==
    /\ pc = "connect"
    /\ connected' = TRUE
    /\ pc' = "serving"
    /\ UNCHANGED <<argv, env, DD, exitCode, configuration, initCount, calls>>

SearchSpansLimitDefault == 100

\* z.number().default(d)
ZodDefault(n, d) == IF n.present THEN n ELSE Num(d)

\* server.tool("get-trace", {traceId: z.string(), limit: z.number().default(1000)}, ...)
GetTraceTool ==
    /\ pc = "serving"
    /\ \E c \in DOMAIN calls, args \in GetTraceParamSet :
           GetTraceExecute(c, [args EXCEPT !.limit = ZodDefault(@, DefaultTraceLimit)])

\* server.tool("search-spans", {..., limit: z.number().default(100)}, ...)
SearchSpansTool ==
    /\ pc = "serving"
    /\ \E c \in DOMAIN calls, args \in SearchSpansParamSet :
           SearchSpansExecute(c, [args EXCEPT
                                     !.limit = ZodDefault(@, SearchSpansLimitDefault)])

\* server.tool("aggregate-spans", {...}, ...)
AggregateSpansTool ==
    /\ pc = "serving"
    /\ \E c \in DOMAIN calls, args \in AggregateSpansParamSet :
           AggregateSpansExecute(c, args)

InitServer ==
    /\ argv \in ArgvInputs
    /\ env \in EnvInputs
    /\ DD = NoDD
    /\ pc = "resolve"
    /\ exitCode = NoExit
    /\ connected = FALSE
    /\ configuration = [t \in Tools |-> Unbound]
    /\ initCount = [t \in Tools |-> 0]
    /\ calls = [c \in Callers |-> Idle]

NextServer ==
    \/ Resolve
    \/ ValidateApiKey
    \/ ValidateAppKey
    \/ InitializeTools
    \/ Connect
    \/ GetTraceTool
    \/ SearchSpansTool
    \/ AggregateSpansTool
    \/ GetTraceResume
    \/ SearchSpansResume
    \/ AggregateSpansResume

SpecServer == InitServer /\ [][NextServer]_vars

\* two clients of the server, whose tool calls may overlap: a handler is
\* suspended at its await while the other's call is dispatched
ConcurrentCallers == {"c1", "c2"}

\* a start of index.ts with both keys and the site given
InitConcurrent ==
    /\ argv \in [apiKey : {ApiKeyArg}, appKey : {Undefined},
                 site : {HttpsPrefix \o <<"e", "u">>},
                 logsSite : {Undefined}, metricsSite : {Undefined}]
    /\ env = [DD_API_KEY |-> Undefined, DD_APP_KEY |-> AppKeyEnv,
              DD_SITE |-> Undefined, DD_LOGS_SITE |-> Undefined,
              DD_METRICS_SITE |-> Undefined]
    /\ DD = NoDD
    /\ pc = "resolve"
    /\ exitCode = NoExit
    /\ connected = FALSE
    /\ configuration = [t \in Tools |-> Unbound]
    /\ initCount = [t \in Tools |-> 0]
    /\ calls = [c \in ConcurrentCallers |-> Idle]

SpecConcurrent == InitConcurrent /\ [][NextServer]_vars

----------------------------------------------------------------------------
(* Properties *)

Invocations == {calls[c] : c \in {d \in DOMAIN calls : calls[d].phase # "idle"}}

\* the awaited backend call of invocation k failed with HTTP status n
FailedWith(k, n) ==
    /\ k.outcome # NoOutcome
    /\ ~k.outcome.ok
    /\ StatusIs(k.outcome.error, n)

\* C1: an execute call made while DD_API_KEY or DD_APP_KEY is unset or empty
\* throws 'API Key and App Key are required' and sends nothing to the backend,
\* whatever its parameters (for getTrace also with an empty traceId).
C1_CredentialsCheckedFirst ==
    \A k \in Invocations :
        ~CredentialsPresent(env) =>
            /\ k.phase = "threw"
            /\ k.error = NewError(<<"API Key and App Key are required">>)
            /\ k.backendCalls = 0
            /\ ~k.request.sent

C1_Witness ==
    \E k \in Invocations :
        /\ k.tool = "getTrace"
        /\ k.params.traceId = <<>>
        /\ env.DD_API_KEY = ApiKeyEnv
        /\ env.DD_APP_KEY = <<>>
        /\ k.phase = "threw"

\* C2: a backend failure with status 403 makes each tool throw the error whose
\* message names the 'apm_read' scope, one with status 429 the error whose
\* message names '300 requests per hour', and for getTrace one with status 404
\* an error whose message contains the caller's traceId; the error thrown is a
\* new one, not the backend's.
C2_ErrorTranslation ==
    \A k \in Invocations :
        /\ FailedWith(k, 403) =>
              /\ k.phase = "threw"
              /\ k.error.message =
                    <<"Datadog API authorization failed. Please verify your API and Application keys have the 'apm_read' scope.">>
              /\ k.error # k.outcome.error
        /\ FailedWith(k, 429) =>
              /\ k.phase = "threw"
              /\ k.error.message =
                    <<"Rate limit exceeded. Spans API allows 300 requests per hour.">>
              /\ k.error # k.outcome.error
        /\ (FailedWith(k, 404) /\ k.tool = "getTrace") =>
              /\ k.phase = "threw"
              /\ Len(k.error.message) = 3
              /\ k.error.message[1] = "Trace with ID "
              /\ k.error.message[2] = k.params.traceId
              /\ k.error # k.outcome.error

C2_Witness ==
    \E k \in Invocations :
        /\ k.tool = "getTrace"
        /\ FailedWith(k, 404)
        /\ k.phase = "threw"
        /\ k.params.traceId = <<"a", "b", "c">>

\* C3: when searchSpans.execute is given a limit and the backend's data list
\* has more items than that limit, the returned data list is the first `limit`
\* items of the backend's list, in order, and has exactly `limit` items.
C3_TruncatesToLimit ==
    \A k \in Invocations :
        (/\ k.tool = "searchSpans"
         /\ k.phase = "returned"
         /\ k.params.limit.present
         /\ k.outcome.response.hasData
         /\ Len(k.outcome.response.data) > k.params.limit.value) =>
            /\ Len(k.result.data) = k.params.limit.value
            /\ k.result.data =
                  [i \in 1..k.params.limit.value |-> k.outcome.response.data[i]]

\* C4: the request getTrace.execute sends for a non-empty traceId has filter
\* query 'trace_id:<traceId>', window 'now-15m' to 'now', sort 'timestamp',
\* type 'search_request', and page limit 1000 when the caller gives no limit
\* and the caller's limit otherwise.
C4_TraceRequest ==
    \A k \in Invocations :
        (k.tool = "getTrace" /\ k.request.sent) =>
            LET a == k.request.body.data.attributes IN
            /\ k.params.traceId # <<>>
            /\ a.filter.query = <<"trace_id:", k.params.traceId>>
            /\ a.filter.from = "now-15m"
            /\ a.filter.to = "now"
            /\ a.sort = "timestamp"
            /\ k.request.body.data.type = "search_request"
            /\ a.page.limit = IF k.params.limit.present THEN k.params.limit.value
                              ELSE 1000

\* C5: when getTrace.execute returns, spanCount is the length of the returned
\* spans list, the list is the backend's (empty, with spanCount 0, when the
\* backend gave no data), and traceId is the caller's traceId.
C5_TraceResult ==
    \A k \in Invocations :
        (k.tool = "getTrace" /\ k.phase = "returned") =>
            /\ k.result.spanCount = Len(k.result.spans)
            /\ k.result.spans = IF k.outcome.response.hasData
                                THEN k.outcome.response.data ELSE <<>>
            /\ (~k.outcome.response.hasData => k.result.spanCount = 0)
            /\ k.result.traceId = k.params.traceId

C5_Witness ==
    \E k \in Invocations :
        /\ k.tool = "getTrace"
        /\ k.phase = "returned"
        /\ k.outcome.response.hasData
        /\ Len(k.outcome.response.data) = 2
        /\ k.params.limit = NoNumber

\* C6: when the API key or the application key is missing after resolution,
\* the process exits with status 1 and, in that run, no tool's initialize
\* runs, the server never connects and no tool call is served.
C6_StartupAbort ==
    (pc # "resolve" /\ (~Truthy(DD.DD_API_KEY) \/ ~Truthy(DD.DD_APP_KEY))) =>
        /\ pc \in {"validateApiKey", "validateAppKey", "exited"}
        /\ (pc = "validateAppKey" => ~Truthy(DD.DD_APP_KEY))
        /\ (pc = "exited" => exitCode = <<1>>)
        /\ \A t \in Tools : configuration[t] = Unbound /\ initCount[t] = 0
        /\ ~connected
        /\ Invocations = {}

C6_Witness ==
    /\ pc = "exited"
    /\ exitCode = <<1>>
    /\ DD.DD_API_KEY = ApiKeyArg
    /\ DD.DD_APP_KEY = Undefined

SiteKeys == {"DD_SITE", "DD_LOGS_SITE", "DD_METRICS_SITE"}

\* C7 as stated: cleanupUrl(cleanupUrl(s)) = cleanupUrl(s) for every site
\* string s, so the value stored at start-up is left unchanged by a further
\* cleanupUrl and does not begin with 'https://'.
C7_CleanupIdempotent ==
    pc # "resolve" =>
        \A k \in SiteKeys :
            /\ cleanupUrl(cleanupUrl(DD[k])) = cleanupUrl(DD[k])
            /\ cleanupUrl(env[k]) = env[k]
            /\ ~StartsWith(env[k], HttpsPrefix)

\* C7 amended: cleanupUrl removes one leading 'https://' and nothing else: the
\* stored value is s without its first 8 characters when s begins with
\* 'https://', and s otherwise.  For every s that does not begin with
\* 'https://https://', the stored value does not begin with 'https://' and a
\* further cleanupUrl leaves it unchanged.
C7_CleanupStripsOnce ==
    pc # "resolve" =>
        \A k \in SiteKeys :
            LET s == DD[k] IN
            /\ StartsWith(s, HttpsPrefix) => (HttpsPrefix \o env[k] = s)
            /\ ~StartsWith(s, HttpsPrefix) => (env[k] = s)
            /\ ~StartsWith(s, HttpsPrefix \o HttpsPrefix) =>
                  /\ cleanupUrl(env[k]) = env[k]
                  /\ ~StartsWith(env[k], HttpsPrefix)

C7_Witness ==
    /\ pc # "resolve"
    /\ DD.DD_SITE = HttpsPrefix \o <<"e", "u">>
    /\ env.DD_SITE = <<"e", "u">>
    /\ DD.DD_LOGS_SITE = LogsSiteEnv
    /\ env.DD_LOGS_SITE = <<"l", "g">>

\* C8: an execute call made while the tool's handle is unbound (initialize has
\* never run) does not return a result.
C8_NoResultBeforeInitialize ==
    \A k \in Invocations : k.phase = "returned" => k.handle.bound

\* C9: an execute invocation that passes validation makes exactly one backend
\* call, and no invocation makes more than one, whatever the call's outcome.
C9_OneBackendCall ==
    \A k \in Invocations :
        /\ k.backendCalls <= 1
        /\ (/\ CredentialsPresent(env)
            /\ (k.tool = "getTrace" => Truthy(k.params.traceId))) =>
              k.backendCalls = 1

C9_Witness ==
    \E k \in Invocations :
        /\ k.tool = "searchSpans"
        /\ FailedWith(k, 429)
        /\ k.phase = "threw"
        /\ k.backendCalls = 1

\* every execute call begins the same way with handle h2 as with handle h1
SameExecute(t, h1, h2, e) ==
    /\ t = "getTrace" =>
          \A p \in GetTraceParamSet : GetTraceBegin(p, h1, e) = GetTraceBegin(p, h2, e)
    /\ t = "searchSpans" =>
          \A p \in SearchSpansParamSet :
              SearchSpansBegin(p, h1, e) = SearchSpansBegin(p, h2, e)
    /\ t = "aggregateSpans" =>
          \A p \in AggregateSpansParamSet :
              AggregateSpansBegin(p, h1, e) = AggregateSpansBegin(p, h2, e)

\* C10: with process.env unchanged, an initialize that is not the tool's first
\* leaves the tool's one handle as it was, so every later execute call sends
\* the same request, with the same handle, as after a single initialize.
C10_InitializeIdempotent ==
    [][\A t \in Tools :
          (initCount[t] >= 1 /\ initCount'[t] = initCount[t] + 1 /\ env' = env) =>
              /\ configuration'[t] = configuration[t]
              /\ SameExecute(t, configuration[t], configuration'[t], env)]_vars

C10_Witness ==
    \E k \in Invocations :
        /\ k.tool = "searchSpans"
        /\ initCount["searchSpans"] = 2
        /\ k.phase = "returned"
        /\ k.handle = configuration["searchSpans"]
        /\ k.handle.site = <<"e", "u">>

\* the statuses the catch block of tool t answers with a new error
TranslatedStatuses(t) == IF t = "getTrace" THEN {403, 429, 404} ELSE {403, 429}

\* the awaited backend call of invocation k threw an error that t's catch
\* block does not translate
FailedUntranslated(k) ==
    /\ k.outcome # NoOutcome
    /\ ~k.outcome.ok
    /\ ~(/\ k.outcome.error.hasStatus
         /\ k.outcome.error.status \in TranslatedStatuses(k.tool))

\* C11: an error raised inside execute whose status is not a translated one
\* (403, 429, and 404 for getTrace only) is thrown to the caller unchanged: a
\* backend error with status 500, with status 404 on searchSpans and
\* aggregateSpans, or with no status, and the credential and traceId
\* validation errors.  No failure is swallowed: execute returns a result only
\* when its backend call succeeded.
C11_UntranslatedRethrown ==
    \A k \in Invocations :
        /\ FailedUntranslated(k) =>
              /\ k.phase = "threw"
              /\ k.error = k.outcome.error
        /\ (k.phase # "pending" /\ k.outcome = NoOutcome) =>
              /\ k.phase = "threw"
              /\ k.error.hasStatus = FALSE
              /\ k.error.name = "Error"
              /\ k.error.message =
                    IF ~CredentialsPresent(env)
                    THEN <<"API Key and App Key are required">>
                    ELSE <<"traceId is required">>
              /\ (CredentialsPresent(env) =>
                    k.tool = "getTrace" /\ ~Truthy(k.params.traceId))
        /\ (k.outcome # NoOutcome /\ ~k.outcome.ok) => k.phase = "threw"
        /\ k.phase = "returned" => (k.outcome # NoOutcome /\ k.outcome.ok)

C11_Witness ==
    \E k \in Invocations :
        /\ k.tool = "searchSpans"
        /\ FailedWith(k, 404)
        /\ k.phase = "threw"
        /\ k.error = k.outcome.error

\* execute of tool t up to its await
BeginOf(t, params, h, e) ==
    CASE t = "getTrace" -> GetTraceBegin(params, h, e)
      [] t = "searchSpans" -> SearchSpansBegin(params, h, e)
      [] t = "aggregateSpans" -> AggregateSpansBegin(params, h, e)

\* execute of tool t from its await on
SettleOf(t, call, outcome) ==
    CASE t = "getTrace" -> GetTraceSettle(call, outcome)
      [] t = "searchSpans" -> SearchSpansSettle(call, outcome)
      [] t = "aggregateSpans" -> AggregateSpansSettle(call, outcome)

\* what invocation k is when it runs with no other call in flight: its request
\* from its own parameters and the tool's handle, its result or error from
\* that and its own backend outcome
Alone(k) ==
    LET b == BeginOf(k.tool, k.params, configuration[k.tool], env)
    IN  IF k.outcome = NoOutcome THEN b ELSE SettleOf(k.tool, b, k.outcome)

\* C12: under any interleaving of overlapping execute calls to the same or
\* different tools after start-up, a step of execute leaves every handle and
\* the credentials and site values of the process as they are; a handle is
\* written only by the initialize calls of start-up, and is then the handle
\* built from process.env; so the request sent by a call and its result or
\* error are those of the same call made alone.
C12_CallsIndependent ==
    /\ [](pc = "serving" =>
            /\ \A t \in Tools : configuration[t] = CreateConfiguration(env)
            /\ \A k \in Invocations : k = Alone(k))
    /\ [][/\ calls' # calls => (configuration' = configuration /\ env' = env /\ DD' = DD)
          /\ configuration' # configuration => (pc = "initialize" /\ calls' = calls)
          /\ env' # env => pc = "resolve"]_vars

C12_Witness ==
    /\ calls["c1"].phase = "pending"
    /\ calls["c1"].tool = "getTrace"
    /\ calls["c2"].phase = "returned"
    /\ calls["c2"].tool = "getTrace"
    /\ calls["c2"].params.traceId # calls["c1"].params.traceId
    /\ calls["c2"].result.traceId = calls["c2"].params.traceId
    /\ calls["c2"].handle = configuration["getTrace"]

=============================================================================
